---- MODULE Spec2Model ----
(***************************************************************************)
(* Chronos time tracking: the time_entries table with its constraints and  *)
(* trigger, the backend operations on it, and the Next.js routes that      *)
(* relay the requests of the client.                                       *)
(*                                                                         *)
(* Timestamps are integers counting milliseconds.  Every mutating request  *)
(* is handled at an instant strictly later than the one before it.         *)
(***************************************************************************)
EXTENDS Integers, FiniteSets, Sequences, TLC

\* ---------------------------------------------------------------- bounds
MaxEntries == 3
MaxNow == 3000
MaxCalls == 3
MaxListPending == 2

\* ------------------------------------------------------------- constants
MsPerSecond == 1000
\* the page size of a list request that names none, and of useTimeEntries
DefaultLimit == 20
NULL == -1
Absent == -2

Owners == {"A", "B"}
NoAuth == "anon"
Callers == Owners \cup {NoAuth}
Ids == 1..MaxEntries
Descriptions == {"a"}
ClockSteps == {750}
InputTimes == {0, 250, 1000}
PatchStarts == {Absent, 250, 3000}
PatchEnds == {Absent, 250, 1000}
SuppliedDurations == {NULL, 7}
Calls == 1..MaxCalls

VARIABLES entries, nextId, now, last, calls, timer, interval, pending, thrown,
          list, filters, listPending, stats, calendar, hidden, reported,
          statsPending

vars == <<entries, nextId, now, last, calls, timer, interval, pending, thrown,
          list, filters, listPending, stats, calendar, hidden, reported,
          statsPending>>
hookVars == <<timer, interval, pending, thrown, hidden, reported>>
listVars == <<list, filters, listPending, stats, calendar, statsPending>>
clientVars == <<calls, timer, interval, pending, thrown, list, filters,
                listPending, stats, calendar, hidden, reported,
                statsPending>>

\* ------------------------------------------------- the time_entries table

\* CHECK (end_time IS NULL OR end_time > start_time)
chk_end_not_before_start(row) ==
    row.end_time = NULL \/ row.end_time >= row.start_time

chk_end_after_start(row) ==
    row.end_time = NULL \/ row.end_time > row.start_time

\* UNIQUE INDEX ON time_entries(user_id) WHERE end_time IS NULL
idx_no_unique(tbl) == TRUE

idx_time_entries_user_running(tbl) ==
    \A i, j \in DOMAIN tbl :
        (tbl[i].end_time = NULL /\ tbl[j].end_time = NULL
         /\ tbl[i].user_id = tbl[j].user_id) => i = j

\* x::INTEGER of a non-negative number of milliseconds taken as seconds: the
\* nearest integer; a tie goes up when EXTRACT gives numeric and to the even
\* neighbour when it gives double precision.
RoundToInteger(ms) ==
    LET q == ms \div MsPerSecond
        r == ms % MsPerSecond
    IN  IF 2 * r < MsPerSecond THEN {q}
        ELSE IF 2 * r > MsPerSecond THEN {q + 1}
        ELSE IF q % 2 = 0 THEN {q, q + 1} ELSE {q + 1}

\* EXTRACT(EPOCH FROM (end_time - start_time))::INTEGER
EpochMillis(ms) == {ms}

EpochToInteger(ms) ==
    IF ms >= 0 THEN RoundToInteger(ms)
    ELSE {0 - d : d \in RoundToInteger(0 - ms)}

\* BEFORE INSERT OR UPDATE trigger: the rows the trigger can hand on
keep_supplied_duration(new) == {new}

calculate_duration(new) ==
    IF new.end_time # NULL /\ new.start_time # NULL
    THEN {[new EXCEPT !.duration = d] :
             d \in EpochToInteger(new.end_time - new.start_time)}
    ELSE {[new EXCEPT !.duration = NULL]}

WithRow(tbl, id, r) ==
    [i \in DOMAIN tbl \cup {id} |-> IF i = id THEN r ELSE tbl[i]]

WithoutRow(tbl, id) ==
    [i \in DOMAIN tbl \ {id} |-> tbl[i]]

\* INSERT or UPDATE of one row: trigger, then the CHECK, then the unique index
DbWrite(tbl, id, new) ==
    { IF ~chk_end_after_start(r) THEN [err |-> "check", tbl |-> tbl]
      ELSE IF ~idx_time_entries_user_running(WithRow(tbl, id, r))
           THEN [err |-> "unique", tbl |-> tbl]
           ELSE [err |-> "ok", tbl |-> WithRow(tbl, id, r)]
      : r \in calculate_duration(new) }

Running(tbl, o) ==
    {i \in DOMAIN tbl : tbl[i].user_id = o /\ tbl[i].end_time = NULL}

\* ------------------------------------------------------ backend operations
\* An outcome is the response status, the table afterwards and the id of the
\* entry the response carries (NULL when it carries none).
Outcome(status, tbl, id) == [status |-> status, tbl |-> tbl, id |-> id]

NewRow(o, desc, s, e, d) ==
    [user_id |-> o, description |-> desc, start_time |-> s, end_time |-> e,
     duration |-> d]

InsertStatus(err) ==
    IF err = "ok" THEN 201 ELSE IF err = "unique" THEN 409 ELSE 400

UpdateStatus(err) ==
    IF err = "ok" THEN 200 ELSE IF err = "unique" THEN 409 ELSE 400

\* the INSERT of POST /api/time-entries/start: start_time is the current time
BackendStartInsert(tbl, id, o, desc, t) ==
    { Outcome(InsertStatus(w.err), w.tbl, IF w.err = "ok" THEN id ELSE NULL) :
        w \in UNION { DbWrite(tbl, id, NewRow(o, desc, t, NULL, d)) :
                        d \in SuppliedDurations } }

\* POST /api/time-entries/start: 409 when a timer is already running
BackendStart(tbl, id, o, desc, t) ==
    IF Running(tbl, o) # {} THEN {Outcome(409, tbl, NULL)}
    ELSE BackendStartInsert(tbl, id, o, desc, t)

\* "End time must be after start time when both are provided"
ValidTimeRange(s, e) == s = Absent \/ e = Absent \/ e = NULL \/ e > s

\* POST /api/time-entries: a completed entry, or a running one (e = NULL);
\* a start_time in the future is refused
BackendCreate(tbl, id, o, desc, s, e, t) ==
    IF ~ValidTimeRange(s, e) THEN {Outcome(400, tbl, NULL)}
    ELSE IF s > t THEN {Outcome(400, tbl, NULL)}
    ELSE { Outcome(InsertStatus(w.err), w.tbl, IF w.err = "ok" THEN id ELSE NULL) :
             w \in UNION { DbWrite(tbl, id, NewRow(o, desc, s, e, d)) :
                             d \in SuppliedDurations } }

\* the patch laid over the stored row; an absent field keeps the stored value
Merged(row, patch) ==
    [row EXCEPT
       !.description = IF patch.description = "" THEN @ ELSE patch.description,
       !.start_time = IF patch.start_time = Absent THEN @ ELSE patch.start_time,
       !.end_time = IF patch.end_time = Absent THEN @ ELSE patch.end_time]

\* the ownership rule of every per-id endpoint: 404 unknown, 403 another user's
Access(tbl, o, id) ==
    IF id \notin DOMAIN tbl THEN 404
    ELSE IF tbl[id].user_id # o THEN 403
    ELSE 200

\* PATCH /api/time-entries/{id}
BackendUpdate(tbl, o, id, patch) ==
    IF Access(tbl, o, id) # 200 THEN {Outcome(Access(tbl, o, id), tbl, NULL)}
    ELSE IF ~ValidTimeRange(patch.start_time, patch.end_time)
         THEN {Outcome(400, tbl, NULL)}
         ELSE { Outcome(UpdateStatus(w.err), w.tbl,
                        IF w.err = "ok" THEN id ELSE NULL) :
                  w \in DbWrite(tbl, id, Merged(tbl[id], patch)) }

\* PATCH /api/time-entries/{id}/stop: end_time becomes the current time
BackendStop(tbl, o, id, t) ==
    IF Access(tbl, o, id) # 200 THEN {Outcome(Access(tbl, o, id), tbl, NULL)}
    ELSE IF tbl[id].end_time # NULL THEN {Outcome(409, tbl, NULL)}
         ELSE { Outcome(UpdateStatus(w.err), w.tbl,
                        IF w.err = "ok" THEN id ELSE NULL) :
                  w \in DbWrite(tbl, id, [tbl[id] EXCEPT !.end_time = t]) }

\* DELETE /api/time-entries/{id}
BackendDelete(tbl, o, id) ==
    IF Access(tbl, o, id) # 200 THEN {Outcome(Access(tbl, o, id), tbl, NULL)}
    ELSE {Outcome(204, WithoutRow(tbl, id), NULL)}

\* GET /api/time-entries/{id}
BackendGet(tbl, o, id) ==
    IF Access(tbl, o, id) # 200 THEN {Outcome(Access(tbl, o, id), tbl, NULL)}
    ELSE {Outcome(200, tbl, id)}

\* GET /api/time-entries/current: 404 when no timer is running
BackendCurrent(tbl, o) ==
    IF Running(tbl, o) = {} THEN {Outcome(404, tbl, NULL)}
    ELSE {Outcome(200, tbl, i) : i \in Running(tbl, o)}

\* GET /api/time-entries/ without filters: the caller's entries
BackendList(tbl, o) == {i \in DOMAIN tbl : tbl[i].user_id = o}

\* ------------------------------------------------------- the Next.js routes
\* fetch's response.ok
ResponseOk(status) == status >= 200 /\ status <= 299

\* a failure of the backend keeps its status; a success is answered with the
\* route's own status
RouteReply(okStatus, out) ==
    [out EXCEPT !.status = IF ResponseOk(@) THEN okStatus ELSE @]

\* POST /api/time-entries/start
RouteStartAlwaysCreated(caller, tbl, id, desc, t) ==
    IF caller = NoAuth THEN {Outcome(401, tbl, NULL)}
    ELSE {[out EXCEPT !.status = 201] :
            out \in BackendStart(tbl, id, caller, desc, t)}

RouteStart(caller, tbl, id, desc, t) ==
    IF caller = NoAuth THEN {Outcome(401, tbl, NULL)}
    ELSE {RouteReply(201, out) : out \in BackendStart(tbl, id, caller, desc, t)}

\* POST /api/time-entries
RouteCreate(caller, tbl, id, desc, s, e, t) ==
    IF caller = NoAuth THEN {Outcome(401, tbl, NULL)}
    ELSE IF e # NULL /\ e <= s THEN {Outcome(400, tbl, NULL)}
    ELSE {RouteReply(201, out) :
            out \in BackendCreate(tbl, id, caller, desc, s, e, t)}

\* PATCH /api/time-entries/[id]
RoutePatch(caller, tbl, id, patch) ==
    IF caller = NoAuth THEN {Outcome(401, tbl, NULL)}
    ELSE IF patch.start_time # Absent /\ patch.end_time # Absent
            /\ patch.end_time <= patch.start_time
         THEN {Outcome(400, tbl, NULL)}
         ELSE {RouteReply(200, out) : out \in BackendUpdate(tbl, caller, id, patch)}

\* PATCH /api/time-entries/[id]/stop
RouteStopNotFound(caller, tbl, id, t) ==
    IF caller = NoAuth THEN {Outcome(401, tbl, NULL)}
    ELSE {[out EXCEPT !.status = IF ResponseOk(@) THEN 200 ELSE 404] :
            out \in BackendStop(tbl, caller, id, t)}

RouteStop(caller, tbl, id, t) ==
    IF caller = NoAuth THEN {Outcome(401, tbl, NULL)}
    ELSE {RouteReply(200, out) : out \in BackendStop(tbl, caller, id, t)}

\* DELETE /api/time-entries/[id]
RouteDeleteJson(caller, tbl, id) ==
    IF caller = NoAuth THEN {Outcome(401, tbl, NULL)}
    ELSE {RouteReply(200, out) : out \in BackendDelete(tbl, caller, id)}

RouteDeleteAlwaysNoContent(caller, tbl, id) ==
    IF caller = NoAuth THEN {Outcome(401, tbl, NULL)}
    ELSE {[out EXCEPT !.status = 204] : out \in BackendDelete(tbl, caller, id)}

RouteDelete(caller, tbl, id) ==
    IF caller = NoAuth THEN {Outcome(401, tbl, NULL)}
    ELSE {RouteReply(204, out) : out \in BackendDelete(tbl, caller, id)}

\* GET /api/time-entries/[id]
RouteGetInternalError(caller, tbl, id) ==
    IF caller = NoAuth THEN {Outcome(401, tbl, NULL)}
    ELSE {[out EXCEPT !.status = IF ResponseOk(@) THEN 200 ELSE 500] :
            out \in BackendGet(tbl, caller, id)}

RouteGet(caller, tbl, id) ==
    IF caller = NoAuth THEN {Outcome(401, tbl, NULL)}
    ELSE {RouteReply(200, out) : out \in BackendGet(tbl, caller, id)}

\* GET /api/time-entries/current: the backend's 404 becomes {data: null}
RouteCurrentPassesNotFound(caller, tbl) ==
    IF caller = NoAuth THEN {Outcome(401, tbl, NULL)}
    ELSE {RouteReply(200, out) : out \in BackendCurrent(tbl, caller)}

RouteCurrent(caller, tbl) ==
    IF caller = NoAuth THEN {Outcome(401, tbl, NULL)}
    ELSE { IF out.status = 404 THEN Outcome(200, tbl, NULL)
           ELSE RouteReply(200, out) : out \in BackendCurrent(tbl, caller) }

\* GET /api/time-entries
RouteList(caller, tbl) ==
    IF caller = NoAuth THEN [status |-> 401, ids |-> {}]
    ELSE [status |-> 200, ids |-> BackendList(tbl, caller)]

\* ------------------------------------------------------------------ actions
\* The reads (get, current, list) change nothing: their responses are the
\* operators RouteGet, RouteCurrent and RouteList of the table at the time of
\* the read.  Every writing request is an action; `last` is its response: the
\* operation, the status, and the id of the entry in the body (NULL if none).
Later(t) == {t + d : d \in ClockSteps} \cap 0..MaxNow

Patches ==
    [description : {"", "b"}, start_time : PatchStarts, end_time : PatchEnds]

Response(op, out, id) ==
    [op |-> op, status |-> out.status,
     id |-> IF ResponseOk(out.status) THEN id ELSE NULL]

IdleCall == [pc |-> "idle", status |-> 0, id |-> NULL]

\* useState's initial TimerState
InitialTimer ==
    [isRunning |-> FALSE, currentEntry |-> NULL, startTime |-> NULL,
     elapsedTime |-> 0, loading |-> TRUE, error |-> FALSE]

\* DEFAULT_FILTERS, with the filters it leaves out
DEFAULT_FILTERS ==
    [start_date |-> Absent, end_date |-> Absent, is_running |-> "",
     page |-> 1, limit |-> DefaultLimit, sort_by |-> "start_time"]

\* the statistics useTimeEntries starts with, and getTimeStats falls back to
ZeroStats ==
    [today |-> 0, this_week |-> 0, this_month |-> 0,
     total_entries_today |-> 0, total_entries_week |-> 0,
     total_entries_month |-> 0]

\* useState's initial TimeEntriesState (without stats)
InitialList ==
    [entries |-> << >>, totalCount |-> 0, totalDuration |-> 0, page |-> 1,
     perPage |-> DefaultLimit, loading |-> TRUE, error |-> FALSE]

\* the calendar around instant 0: the weekday of the 16th of the current
\* month (0 is Sunday), the days of the month and of the month before it
DefaultCalendar == [weekday |-> 1, len |-> 30, lenPrev |-> 31]

\* The three list requests of a getTimeStats call (statsPending): each is
\* "idle", in "flight" with its filters f, or "done" with what getTimeEntries
\* gave for it (res).
Windows == {"today", "week", "month"}

NoStatsRequest ==
    [state |-> "idle", f |-> DEFAULT_FILTERS,
     res |-> [thrown |-> FALSE,
              body |-> [status |-> 0, entries |-> << >>, total_count |-> 0,
                        total_duration |-> 0, page |-> 0, per_page |-> 0]]]

NoStatsRequests == [k \in Windows |-> NoStatsRequest]

\* no list request is in flight for a hook that is not mounted
ListIdle ==
    /\ list = InitialList
    /\ filters = DEFAULT_FILTERS
    /\ listPending = {}
    /\ statsPending = NoStatsRequests

\* no useTimeEntries hook is mounted
ListUnmounted ==
    /\ ListIdle
    /\ stats = [value |-> ZeroStats, loading |-> TRUE]
    /\ calendar = DefaultCalendar

\* no useTimer hook is mounted
TimerUnmounted ==
    /\ timer = InitialTimer
    /\ interval = NULL
    /\ pending = {}
    /\ thrown = FALSE
    /\ hidden = FALSE
    /\ reported = "nothing"

\* no hook is mounted
HookUnmounted == TimerUnmounted /\ ListUnmounted

Init ==
    /\ entries = << >>
    /\ nextId = 1
    /\ now = 0
    /\ last = [op |-> "none", status |-> 0, id |-> NULL]
    /\ calls = [c \in Calls |-> IdleCall]
    /\ HookUnmounted

Start(o, desc) ==
    /\ nextId <= MaxEntries
    /\ \E t \in Later(now) :
         \E out \in RouteStart(o, entries, nextId, desc, t) :
            /\ now' = t
            /\ entries' = out.tbl
            /\ nextId' = IF out.id # NULL THEN nextId + 1 ELSE nextId
            /\ last' = Response("start", out, nextId)
    /\ UNCHANGED clientVars

Create(o, desc, s, e) ==
    /\ nextId <= MaxEntries
    /\ \E t \in Later(now) :
         \E out \in RouteCreate(o, entries, nextId, desc, s, e, t) :
            /\ now' = t
            /\ entries' = out.tbl
            /\ nextId' = IF out.id # NULL THEN nextId + 1 ELSE nextId
            /\ last' = Response("create", out, nextId)
    /\ UNCHANGED clientVars

Update(o, id, patch) ==
    /\ \E t \in Later(now) :
         \E out \in RoutePatch(o, entries, id, patch) :
            /\ now' = t
            /\ entries' = out.tbl
            /\ last' = Response("update", out, id)
    /\ UNCHANGED <<nextId, clientVars>>

Stop(o, id) ==
    /\ \E t \in Later(now) :
         \E out \in RouteStop(o, entries, id, t) :
            /\ now' = t
            /\ entries' = out.tbl
            /\ last' = Response("stop", out, id)
    /\ UNCHANGED <<nextId, clientVars>>

Delete(o, id) ==
    /\ \E t \in Later(now) :
         \E out \in RouteDelete(o, entries, id) :
            /\ now' = t
            /\ entries' = out.tbl
            /\ last' = Response("delete", out, id)
    /\ UNCHANGED <<nextId, clientVars>>

Next ==
    \/ \E o \in Callers, desc \in Descriptions : Start(o, desc)
    \/ \E o \in Callers, desc \in Descriptions, s \in InputTimes,
          e \in InputTimes \cup {NULL} : Create(o, desc, s, e)
    \/ \E o \in Callers, id \in Ids, patch \in Patches : Update(o, id, patch)
    \/ \E o \in Callers, id \in Ids : Stop(o, id)
    \/ \E o \in Callers, id \in Ids : Delete(o, id)

Spec == Init /\ [][Next]_vars

\* ------------------------------------------- concurrent start calls (SpecRace)
\* MaxCalls start requests of one owner are in flight at once.  The handler's
\* look for a running timer and its INSERT are separate steps, so that other
\* calls run between them; time passes between any two steps.
RaceOwner == "A"

RaceStores ==
    { << >>,
      (1 :> NewRow("A", "a", 0, 1000, 1)),
      (1 :> NewRow("B", "a", 750, NULL, NULL)) }

InitRace ==
    /\ entries \in RaceStores
    /\ nextId = Cardinality(DOMAIN entries) + 1
    /\ now = 750
    /\ last = [op |-> "none", status |-> 0, id |-> NULL]
    /\ calls = [c \in Calls |-> [pc |-> "pending", status |-> 0, id |-> NULL]]
    /\ HookUnmounted

RaceCheck(c) ==
    /\ calls[c].pc = "pending"
    /\ calls' = [calls EXCEPT ![c] =
                   IF Running(entries, RaceOwner) # {}
                   THEN [pc |-> "done", status |-> 409, id |-> NULL]
                   ELSE [pc |-> "checked", status |-> 0, id |-> NULL]]
    /\ UNCHANGED <<entries, nextId, now, last, hookVars, listVars>>

RaceInsert(c) ==
    /\ calls[c].pc = "checked"
    /\ \E desc \in Descriptions :
         \E back \in BackendStartInsert(entries, nextId, RaceOwner, desc, now) :
            LET out == RouteReply(201, back)
            IN  /\ entries' = out.tbl
                /\ nextId' = IF out.id # NULL THEN nextId + 1 ELSE nextId
                /\ calls' = [calls EXCEPT ![c] =
                               [pc |-> "done", status |-> out.status,
                                id |-> out.id]]
    /\ UNCHANGED <<now, last, hookVars, listVars>>

RaceTick ==
    /\ \E t \in Later(now) : now' = t
    /\ UNCHANGED <<entries, nextId, last, clientVars>>

NextRace ==
    \/ \E c \in Calls : RaceCheck(c)
    \/ \E c \in Calls : RaceInsert(c)
    \/ RaceTick

SpecRace == InitRace /\ [][NextRace]_vars

\* ------------------------------------------------- the useTimer hook (SpecTimer)
\* One session of TimerOwner runs the hook; `timer` is its TimerState, where
\* currentEntry is the id of the entry it holds and startTime that entry's
\* start_time as fetched; `interval` is intervalRef (NULL, or the start_time
\* its callback computes from); `pending` holds the requests of the hook that
\* are in flight; `thrown` tells whether the hook call settled last rejected;
\* `hidden` is document.hidden; `reported` tells what the get_running response
\* applied last said ("nothing" before the first one).
\* Other sessions start, stop and delete entries meanwhile.
TimerOwner == "A"

Request(kind, id) == [kind |-> kind, id |-> id]

\* calculateElapsedTime
calculateElapsedTime(startTime, clock) ==
    IF startTime = NULL THEN 0
    ELSE IF (clock - startTime) \div MsPerSecond > 0
         THEN (clock - startTime) \div MsPerSecond
         ELSE 0

\* the `error` text in the body of a response of the /current route that is
\* not ok: the route's own text, or the backend's, which is never empty
CurrentErrorText(status) ==
    IF status = 401 THEN "Unauthorized"
    ELSE IF status = 500 THEN "Internal server error"
    ELSE "Failed to fetch current timer"

\* handleResponse: a response that is not ok throws an Error whose message is
\* the body's error text, or `HTTP <status>: <statusText>` when it has none;
\* `code` is the status that message names (0 when it names none)
handleResponse(status, text) ==
    IF ResponseOk(status) THEN [thrown |-> FALSE, text |-> "", code |-> 0]
    ELSE IF text # "" THEN [thrown |-> TRUE, text |-> text, code |-> 0]
    ELSE [thrown |-> TRUE, text |-> "HTTP", code |-> status]

\* error.message.includes("404")
Includes404(message) == message.code = 404

\* timeEntriesAPI.getCurrentTimer over the /current route: the entry, or null;
\* an error whose message names 404 is turned into null
getCurrentTimer(tbl, o, failed) ==
    IF failed THEN {[thrown |-> TRUE, entry |-> NULL]}
    ELSE { LET r == handleResponse(out.status, CurrentErrorText(out.status))
           IN  IF ~r.thrown THEN [thrown |-> FALSE, entry |-> out.id]
               ELSE IF Includes404(r) THEN [thrown |-> FALSE, entry |-> NULL]
               ELSE [thrown |-> TRUE, entry |-> NULL] :
             out \in RouteCurrent(o, tbl) }

\* the guard stopTimer starts with: without a current entry it throws before
\* any request is made
stopTimerWithoutGuard(st) == [throws |-> FALSE, id |-> st.currentEntry]

stopTimerGuard(st) ==
    IF st.currentEntry = NULL THEN [throws |-> TRUE, id |-> NULL]
    ELSE [throws |-> FALSE, id |-> st.currentEntry]

InitTimer ==
    /\ entries = << >>
    /\ nextId = 1
    /\ now = 0
    /\ last = [op |-> "none", status |-> 0, id |-> NULL]
    /\ calls = [c \in Calls |-> IdleCall]
    /\ timer = InitialTimer
    /\ interval = NULL
    /\ pending = {Request("load", NULL)}
    /\ thrown = FALSE
    /\ hidden = FALSE
    /\ reported = "nothing"
    /\ ListUnmounted

\* refreshTimer: loadCurrentTimer up to its await
TimerRefresh ==
    /\ Request("load", NULL) \notin pending
    /\ timer' = [timer EXCEPT !.loading = TRUE, !.error = FALSE]
    /\ pending' = pending \cup {Request("load", NULL)}
    /\ UNCHANGED <<entries, nextId, now, last, calls, interval, thrown,
                   listVars, hidden, reported>>

\* loadCurrentTimer from its await on
TimerLoadReturn ==
    /\ Request("load", NULL) \in pending
    /\ pending' = pending \ {Request("load", NULL)}
    /\ \E failed \in BOOLEAN :
         \E res \in getCurrentTimer(entries, TimerOwner, failed) :
            IF res.thrown
            THEN /\ timer' = [timer EXCEPT !.loading = FALSE, !.error = TRUE,
                                           !.isRunning = FALSE,
                                           !.currentEntry = NULL,
                                           !.startTime = NULL,
                                           !.elapsedTime = 0]
                 /\ interval' = interval
                 /\ reported' = "failed"
            ELSE IF res.entry # NULL /\ entries[res.entry].end_time = NULL
            THEN /\ timer' = [timer EXCEPT
                               !.isRunning = TRUE,
                               !.currentEntry = res.entry,
                               !.startTime = entries[res.entry].start_time,
                               !.elapsedTime =
                                  calculateElapsedTime(
                                     entries[res.entry].start_time, now),
                               !.loading = FALSE]
                 /\ interval' = entries[res.entry].start_time
                 /\ reported' = "running"
            ELSE /\ timer' = [timer EXCEPT !.isRunning = FALSE,
                                           !.currentEntry = NULL,
                                           !.startTime = NULL,
                                           !.elapsedTime = 0,
                                           !.loading = FALSE]
                 /\ interval' = interval
                 /\ reported' = IF res.entry # NULL THEN "running" ELSE "idle"
    /\ UNCHANGED <<entries, nextId, now, last, calls, thrown, listVars, hidden>>

\* startTimer up to its await
TimerStartCall ==
    /\ Request("start", NULL) \notin pending
    /\ timer' = [timer EXCEPT !.loading = TRUE, !.error = FALSE]
    /\ pending' = pending \cup {Request("start", NULL)}
    /\ UNCHANGED <<entries, nextId, now, last, calls, interval, thrown,
                   listVars, hidden, reported>>

\* the catch of startTimer: the error is put into the state and thrown on to
\* the caller
startTimerSwallows(st) ==
    [timer |-> [st EXCEPT !.loading = FALSE], thrown |-> FALSE]

startTimerCatch(st) ==
    [timer |-> [st EXCEPT !.loading = FALSE, !.error = TRUE], thrown |-> TRUE]

\* startTimer from its await on: the request is handled and answered, or the
\* fetch fails
TimerStartReturn(desc) ==
    /\ Request("start", NULL) \in pending
    /\ pending' = pending \ {Request("start", NULL)}
    /\ \/ /\ nextId <= MaxEntries
          /\ \E t \in Later(now) :
               \E out \in RouteStart(TimerOwner, entries, nextId, desc, t) :
                  /\ now' = t
                  /\ entries' = out.tbl
                  /\ nextId' = IF out.id # NULL THEN nextId + 1 ELSE nextId
                  /\ last' = Response("start", out, nextId)
                  /\ IF ResponseOk(out.status)
                     THEN /\ timer' = [timer EXCEPT
                                        !.isRunning = TRUE,
                                        !.currentEntry = out.id,
                                        !.startTime = out.tbl[out.id].start_time,
                                        !.elapsedTime = 0,
                                        !.loading = FALSE]
                          /\ interval' = out.tbl[out.id].start_time
                          /\ thrown' = FALSE
                     ELSE /\ timer' = startTimerCatch(timer).timer
                          /\ interval' = interval
                          /\ thrown' = startTimerCatch(timer).thrown
       \/ /\ timer' = startTimerCatch(timer).timer
          /\ thrown' = startTimerCatch(timer).thrown
          /\ UNCHANGED <<entries, nextId, now, last, interval>>
    /\ UNCHANGED <<calls, listVars, hidden, reported>>

\* stopTimer up to its await
TimerStopCall ==
    /\ \A r \in pending : r.kind # "stop"
    /\ IF stopTimerGuard(timer).throws
       THEN /\ thrown' = TRUE
            /\ UNCHANGED <<timer, pending>>
       ELSE /\ timer' = [timer EXCEPT !.loading = TRUE, !.error = FALSE]
            /\ pending' = pending \cup {Request("stop", stopTimerGuard(timer).id)}
            /\ thrown' = thrown
    /\ UNCHANGED <<entries, nextId, now, last, calls, interval, listVars,
                   hidden, reported>>

\* stopTimer from its await on: the request is handled and answered, or the
\* fetch fails
TimerStopReturn(r) ==
    /\ r \in pending
    /\ r.kind = "stop"
    /\ pending' = pending \ {r}
    /\ \/ \E t \in Later(now) :
            \E out \in RouteStop(TimerOwner, entries, r.id, t) :
               /\ now' = t
               /\ entries' = out.tbl
               /\ last' = Response("stop", out, r.id)
               /\ IF ResponseOk(out.status)
                  THEN /\ interval' = NULL
                       /\ timer' = [timer EXCEPT !.isRunning = FALSE,
                                                 !.currentEntry = NULL,
                                                 !.startTime = NULL,
                                                 !.elapsedTime = 0,
                                                 !.loading = FALSE]
                       /\ thrown' = FALSE
                  ELSE /\ timer' = [timer EXCEPT !.loading = FALSE,
                                                 !.error = TRUE]
                       /\ interval' = interval
                       /\ thrown' = TRUE
       \/ /\ timer' = [timer EXCEPT !.loading = FALSE, !.error = TRUE]
          /\ thrown' = TRUE
          /\ UNCHANGED <<entries, now, last, interval>>
    /\ UNCHANGED <<nextId, calls, listVars, hidden, reported>>

NextTimer ==
    \/ TimerRefresh
    \/ TimerLoadReturn
    \/ TimerStartCall
    \/ \E desc \in Descriptions : TimerStartReturn(desc)
    \/ TimerStopCall
    \/ \E r \in pending : TimerStopReturn(r)
    \/ \E o \in Owners, desc \in Descriptions : Start(o, desc)
    \/ \E o \in Owners, id \in Ids : Stop(o, id)
    \/ \E o \in Owners, id \in Ids : Delete(o, id)

SpecTimer == InitTimer /\ [][NextTimer]_vars

\* ------------------------------------------------- listing (GET /api/time-entries)
\* A filter is the TimeEntryFilters of a list request: start_date and end_date
\* (Absent when not set), is_running ("true", "false", or "" when not set),
\* page and limit (Absent when not set) and sort_by.  A list response carries
\* the ids of the entries of its page, in order.

\* page_size is bounded to [1, MaxLimit], page to [1, MaxPage]; a request
\* outside these is clamped
MaxLimit == 100
MaxPage == 1000

ClampLimit(l) ==
    IF l = Absent THEN DefaultLimit
    ELSE IF l < 1 THEN 1 ELSE IF l > MaxLimit THEN MaxLimit ELSE l

ClampPage(pg) ==
    IF pg = Absent THEN 1
    ELSE IF pg < 1 THEN 1 ELSE IF pg > MaxPage THEN MaxPage ELSE pg

\* the filter predicate: the caller's entries whose start_time lies in
\* start_date..end_date (inclusive) and whose running state is the one asked for
Matching(tbl, o, f) ==
    {i \in DOMAIN tbl :
       /\ tbl[i].user_id = o
       /\ f.start_date = Absent \/ tbl[i].start_time >= f.start_date
       /\ f.end_date = Absent \/ tbl[i].start_time <= f.end_date
       /\ f.is_running = "true" => tbl[i].end_time = NULL
       /\ f.is_running = "false" => tbl[i].end_time # NULL}

\* what an entry adds to total_duration at time t: its stored duration, or for
\* a running entry the seconds elapsed so far
Contribution(row, t) ==
    IF row.end_time # NULL THEN row.duration
    ELSE IF t > row.start_time THEN (t - row.start_time) \div MsPerSecond
    ELSE 0

RECURSIVE TotalDuration(_, _, _)
TotalDuration(tbl, S, t) ==
    IF S = {} THEN 0
    ELSE LET i == CHOOSE x \in S : TRUE
         IN  Contribution(tbl[i], t) + TotalDuration(tbl, S \ {i}, t)

\* the sort order: start_time descending, or duration descending with a running
\* entry (null duration) above every finite duration; equal keys keep the order
\* of the ids
SortsBefore(tbl, sort_by, i, j) ==
    IF sort_by = "duration"
    THEN LET di == tbl[i].duration
             dj == tbl[j].duration
         IN  \/ di = NULL /\ dj # NULL
             \/ di # NULL /\ dj # NULL /\ di > dj
             \/ (di = NULL <=> dj = NULL) /\ di = dj /\ i < j
    ELSE \/ tbl[i].start_time > tbl[j].start_time
         \/ tbl[i].start_time = tbl[j].start_time /\ i < j

Sorted(tbl, S, sort_by) ==
    LET before == [i \in S |->
                     Cardinality({j \in S : SortsBefore(tbl, sort_by, j, i)})]
    IN  [k \in 1..Cardinality(S) |-> CHOOSE i \in S : before[i] = k - 1]

\* the window of a page: offset (page - 1) * page_size, limit page_size
PageSlice(seq, pg, limit) ==
    LET offset == (pg - 1) * limit
        upto == IF offset + limit < Len(seq) THEN offset + limit ELSE Len(seq)
    IN  SubSeq(seq, offset + 1, upto)

ListBody(status, ids, count, duration, pg, limit) ==
    [status |-> status, entries |-> ids, total_count |-> count,
     total_duration |-> duration, page |-> pg, per_page |-> limit]

ListError(status) == ListBody(status, << >>, 0, 0, 0, 0)

\* GET /api/time-entries/ of the backend, handled at time t
BackendListPage(tbl, o, f, t) ==
    LET S == Matching(tbl, o, f)
        pg == ClampPage(f.page)
        limit == ClampLimit(f.limit)
    IN  ListBody(200, PageSlice(Sorted(tbl, S, f.sort_by), pg, limit),
                 Cardinality(S), TotalDuration(tbl, S, t), pg, limit)

\* GET /api/time-entries of the proxy: the query string is forwarded as it is
\* and the backend's body returned as it is
RouteListPageDropsQuery(caller, tbl, f, t) ==
    IF caller = NoAuth THEN ListError(401)
    ELSE BackendListPage(tbl, caller, DEFAULT_FILTERS, t)

RouteListPage(caller, tbl, f, t) ==
    IF caller = NoAuth THEN ListError(401)
    ELSE BackendListPage(tbl, caller, f, t)

\* timeEntriesAPI.getTimeEntries: a filter that is undefined, null or "" is left
\* out of the query; a response that is not ok, or no response, throws
getTimeEntries(tbl, caller, f, t, failed) ==
    IF failed THEN [thrown |-> TRUE, body |-> ListError(0)]
    ELSE LET body == RouteListPage(caller, tbl, f, t)
         IN  [thrown |-> ~ResponseOk(body.status), body |-> body]

\* ------------------------------------------- the useTimeEntries hook (SpecList)
\* One session of ListOwner runs the hook over a store that already holds
\* entries; `list` is its TimeEntriesState (the entries as ids), `filters` its
\* filters and `listPending` the filters of its list requests in flight, at
\* most MaxListPending at once.  Other sessions of ListOwner delete entries
\* meanwhile.
ListOwner == "A"

\* the row as the trigger stores it
Stored(row) == CHOOSE r \in calculate_duration(row) : TRUE

ListStores ==
    { << >>,
      << Stored(NewRow("A", "a", 0, 1000, NULL)),
         Stored(NewRow("A", "a", 250, 2250, NULL)),
         Stored(NewRow("B", "a", 0, 3000, NULL)),
         Stored(NewRow("A", "a", 250, 1250, NULL)),
         Stored(NewRow("A", "a", 1000, 3000, NULL)),
         Stored(NewRow("A", "a", 750, NULL, NULL)),
         Stored(NewRow("B", "a", 1000, NULL, NULL)) >> }

\* the initialFilters the hook is mounted with
DateRanges == { <<Absent, Absent>>, <<250, 750>> }

InitialFilters ==
    { [DEFAULT_FILTERS EXCEPT !.start_date = d[1], !.end_date = d[2],
                              !.is_running = r, !.limit = l, !.sort_by = sb] :
        d \in DateRanges, r \in {"", "true", "false"},
        l \in {2, DefaultLimit}, sb \in {"start_time", "duration"} }

\* the changes of the filters the session makes: setPage
FilterChanges == { <<"page", 1>>, <<"page", 2>>, <<"page", 3>> }

InitList ==
    /\ entries \in ListStores
    /\ nextId = Len(entries) + 1
    /\ now = 2250
    /\ last = [op |-> "none", status |-> 0, id |-> NULL]
    /\ calls = [c \in Calls |-> IdleCall]
    /\ TimerUnmounted
    /\ list = InitialList
    /\ filters \in InitialFilters
    /\ listPending = {filters}
    /\ stats = [value |-> ZeroStats, loading |-> TRUE]
    /\ calendar = DefaultCalendar
    /\ statsPending = NoStatsRequests

\* updateFilters: the change is laid over the filters, and the page is reset
\* to 1 unless the change names one; the effect on the new filters then runs
\* loadTimeEntries up to its await
UpdateFilters(key, value) ==
    /\ Cardinality(listPending) < MaxListPending
    /\ filters' = [filters EXCEPT ![key] = value,
                                  !.page = IF key = "page" THEN value ELSE 1]
    /\ list' = [list EXCEPT !.loading = TRUE, !.error = FALSE]
    /\ listPending' = listPending \cup {filters'}
    /\ UNCHANGED <<entries, nextId, now, last, calls, hookVars, stats,
                   calendar, statsPending>>

\* what loadTimeEntries makes of the state when its request has settled
loadTimeEntries(st, res) ==
    IF res.thrown THEN [st EXCEPT !.loading = FALSE, !.error = TRUE]
    ELSE [st EXCEPT !.entries = res.body.entries,
                    !.totalCount = res.body.total_count,
                    !.totalDuration = res.body.total_duration,
                    !.page = res.body.page,
                    !.perPage = res.body.per_page,
                    !.loading = FALSE]

\* loadTimeEntries from its await on, for the request made with filters f
ListReturn(f) ==
    /\ f \in listPending
    /\ listPending' = listPending \ {f}
    /\ \E failed \in BOOLEAN :
         list' = loadTimeEntries(list, getTimeEntries(entries, ListOwner, f,
                                                      now, failed))
    /\ UNCHANGED <<entries, nextId, now, last, calls, hookVars, filters, stats,
                   calendar, statsPending>>

\* A mutating request of the hook in flight, or the list request that follows
\* it ("revert" from the catch, "refresh" after a success): the entry, the
\* filters of the loadTimeEntries the call closed over, and the patch of an
\* update.  In SpecList `pending` holds them, at most one at a time.
NoPatch == [description |-> "", start_time |-> Absent, end_time |-> Absent]

Mutation(kind, id, f, patch) ==
    [kind |-> kind, id |-> id, f |-> f, patch |-> patch]

\* the patches the session sends: a new end_time
EntryPatches == {[NoPatch EXCEPT !.end_time = e] : e \in {250}}

\* the session mutates the first row of a list that has settled
Displayed(st, id) ==
    /\ ~st.loading /\ listPending = {}
    /\ st.entries # << >> /\ st.entries[1] = id

\* deleteEntry before its await: the entry is taken out of the state
deleteEntryOptimistic(st, id) ==
    [st EXCEPT !.entries = SelectSeq(@, LAMBDA e : e # id),
               !.totalCount = IF @ - 1 > 0 THEN @ - 1 ELSE 0]

\* updateEntry after its await: the entry is replaced by the response's (the
\* ids of the state stay as they are)
updateEntryApplied(st, id) == st

\* loadTimeEntries up to its await
loadTimeEntriesCall(st) == [st EXCEPT !.loading = TRUE, !.error = FALSE]

DeleteEntryCall(id) ==
    /\ pending = {}
    /\ Displayed(list, id)
    /\ list' = deleteEntryOptimistic(list, id)
    /\ pending' = {Mutation("delete", id, filters, NoPatch)}
    /\ UNCHANGED <<entries, nextId, now, last, calls, timer, interval, thrown,
                   hidden, reported, filters, listPending, stats, calendar, statsPending>>

UpdateEntryCall(id, patch) ==
    /\ pending = {}
    /\ Displayed(list, id)
    /\ pending' = {Mutation("update", id, filters, patch)}
    /\ UNCHANGED <<entries, nextId, now, last, calls, timer, interval, thrown,
                   hidden, reported, list, filters, listPending, stats,
                   calendar, statsPending>>

\* what `last` is after a request that got no response
NoResponse(op) == [op |-> op, status |-> 0, id |-> NULL]

\* the catch of deleteEntry and of updateEntry up to its await: the
\* loadTimeEntries the call closed over is run
MutationFailed(r) ==
    /\ pending' = {Mutation("revert", r.id, r.f, NoPatch)}
    /\ list' = loadTimeEntriesCall(list)
    /\ stats' = stats

\* deleteEntry from its first await to its second
DeleteEntryReturn(r) ==
    /\ r \in pending /\ r.kind = "delete"
    /\ \/ /\ MutationFailed(r)
          /\ last' = NoResponse(r.kind)
          /\ entries' = entries
       \/ \E out \in RouteDelete(ListOwner, entries, r.id) :
             /\ entries' = out.tbl
             /\ last' = Response("delete", out, r.id)
             /\ IF ResponseOk(out.status)
                THEN /\ pending' = {Mutation("refresh", r.id, r.f, NoPatch)}
                     /\ list' = loadTimeEntriesCall(list)
                     /\ stats' = [stats EXCEPT !.loading = TRUE]
                ELSE MutationFailed(r)
    /\ UNCHANGED <<nextId, now, calls, timer, interval, thrown, hidden,
                   reported, filters, listPending, calendar, statsPending>>

\* updateEntry from its first await on
UpdateEntryReturn(r) ==
    /\ r \in pending /\ r.kind = "update"
    /\ \/ /\ MutationFailed(r)
          /\ last' = NoResponse(r.kind)
          /\ UNCHANGED <<entries, thrown>>
       \/ \E out \in RoutePatch(ListOwner, entries, r.id, r.patch) :
             /\ entries' = out.tbl
             /\ last' = Response("update", out, r.id)
             /\ IF ResponseOk(out.status)
                THEN /\ pending' = {}
                     /\ list' = updateEntryApplied(list, r.id)
                     /\ stats' = [stats EXCEPT !.loading = TRUE]
                     /\ thrown' = FALSE
                ELSE MutationFailed(r) /\ thrown' = thrown
    /\ UNCHANGED <<nextId, now, calls, timer, interval, hidden, reported,
                   filters, listPending, calendar, statsPending>>

\* the loadTimeEntries of a mutation from its await on; after it the catch
\* throws the error on
RefetchReturn(r) ==
    /\ r \in pending /\ r.kind \in {"revert", "refresh"}
    /\ pending' = pending \ {r}
    /\ \E failed \in BOOLEAN :
         list' = loadTimeEntries(list, getTimeEntries(entries, ListOwner, r.f,
                                                      now, failed))
    /\ thrown' = (r.kind = "revert")
    /\ UNCHANGED <<entries, nextId, now, last, calls, timer, interval, hidden,
                   reported, filters, listPending, stats, calendar, statsPending>>

\* the computed values of the hook
hasNextPageInclusive(st) == st.page * st.perPage <= st.totalCount

hasNextPage(st) == st.page * st.perPage < st.totalCount

totalPages(st) ==
    (st.totalCount + st.perPage - 1) \div st.perPage

NextList ==
    \/ \E c \in FilterChanges : UpdateFilters(c[1], c[2])
    \/ \E f \in listPending : ListReturn(f)
    \/ \E id \in DOMAIN entries : Delete(ListOwner, id)

SpecList == InitList /\ [][NextList]_vars

\* The session with mutations (SpecMutate): the hook is mounted with a page
\* size of two over the store that holds entries, and the session deletes and
\* updates entries while it pages.
MutateFilters ==
    {f \in InitialFilters :
        /\ f.limit < DefaultLimit /\ f.start_date = Absent
        /\ f.is_running = "" /\ f.sort_by = "start_time"}

MutateStore ==
    << Stored(NewRow("A", "a", 0, 1000, NULL)),
       Stored(NewRow("B", "a", 0, 3000, NULL)),
       Stored(NewRow("A", "a", 750, NULL, NULL)) >>

InitMutate ==
    /\ entries = MutateStore
    /\ nextId = Len(entries) + 1
    /\ now = 2250
    /\ last = [op |-> "none", status |-> 0, id |-> NULL]
    /\ calls = [c \in Calls |-> IdleCall]
    /\ TimerUnmounted
    /\ list = InitialList
    /\ filters \in MutateFilters
    /\ listPending = {filters}
    /\ stats = [value |-> ZeroStats, loading |-> TRUE]
    /\ calendar = DefaultCalendar
    /\ statsPending = NoStatsRequests

NextMutate ==
    \/ \E c \in FilterChanges : UpdateFilters(c[1], c[2])
    \/ \E f \in listPending : ListReturn(f)
    \/ \E id \in DOMAIN entries : Delete(ListOwner, id)
    \/ \E id \in DOMAIN entries : DeleteEntryCall(id)
    \/ \E id \in DOMAIN entries, patch \in EntryPatches :
          UpdateEntryCall(id, patch)
    \/ \E r \in pending : DeleteEntryReturn(r)
    \/ \E r \in pending : UpdateEntryReturn(r)
    \/ \E r \in pending : RefetchReturn(r)

SpecMutate == InitMutate /\ [][NextMutate]_vars

\* ------------------------------------------------ the timer widget (SpecWidget)
\* TimerWidget mounts the hook, on a page that is visible or hidden.  Its Start
\* button is enabled while canStart and its Stop button while canStop; the
\* interval's callback ticks; the page is hidden and shown; time passes.
canStartIgnoresLoading(st) == ~st.isRunning

canStart(st) == ~st.isRunning /\ ~st.loading

canStop(st) == st.isRunning /\ ~st.loading

\* the callback startTimerUpdate hands to setInterval, for the entry that
\* started at startTime
tickAccumulates(st, startTime, clock) ==
    [st EXCEPT !.elapsedTime = st.elapsedTime + 1]

tick(st, startTime, clock) ==
    [st EXCEPT !.elapsedTime = calculateElapsedTime(startTime, clock)]

\* handleVisibilityChange with document.hidden = h: the state and intervalRef
\* it leaves
handleVisibilityChange(st, iv, h, clock) ==
    IF st.isRunning /\ st.currentEntry # NULL
    THEN IF h THEN [timer |-> st, interval |-> NULL]
         ELSE [timer |-> [st EXCEPT !.elapsedTime =
                                       calculateElapsedTime(st.startTime,
                                                            clock)],
               interval |-> st.startTime]
    ELSE [timer |-> st, interval |-> iv]

InitWidget ==
    /\ entries = << >>
    /\ nextId = 1
    /\ now = 0
    /\ last = [op |-> "none", status |-> 0, id |-> NULL]
    /\ calls = [c \in Calls |-> IdleCall]
    /\ timer = InitialTimer
    /\ interval = NULL
    /\ pending = {Request("load", NULL)}
    /\ thrown = FALSE
    /\ hidden \in BOOLEAN
    /\ reported = "nothing"
    /\ ListUnmounted

Tick ==
    /\ interval # NULL
    /\ timer' = tick(timer, interval, now)
    /\ UNCHANGED <<entries, nextId, now, last, calls, interval, pending,
                   thrown, listVars, hidden, reported>>

VisibilityChange(h) ==
    /\ hidden # h
    /\ hidden' = h
    /\ timer' = handleVisibilityChange(timer, interval, h, now).timer
    /\ interval' = handleVisibilityChange(timer, interval, h, now).interval
    /\ UNCHANGED <<entries, nextId, now, last, calls, pending, thrown,
                   listVars, reported>>

\* time passes
Pass ==
    /\ \E t \in Later(now) : now' = t
    /\ UNCHANGED <<entries, nextId, last, clientVars>>

\* handleStart of the Dashboard page, which keeps a timer state of its own
\* (isRunning, currentEntry, elapsedTime and an interval): what it makes of the
\* response `out` to its start request, the toast it shows and the requests it
\* goes on to make
handleStart(st, iv, out) ==
    IF ResponseOk(out.status)
    THEN [timer |-> [st EXCEPT !.isRunning = TRUE,
                               !.currentEntry = out.id,
                               !.startTime = out.tbl[out.id].start_time,
                               !.elapsedTime = 0],
          interval |-> out.tbl[out.id].start_time,
          toast |-> "Timer started", requests |-> {}]
    ELSE [timer |-> st, interval |-> iv,
          toast |-> "Failed to start timer", requests |-> {}]

\* the Start and the Stop button
WidgetStart == canStart(timer) /\ TimerStartCall

WidgetStop == canStop(timer) /\ TimerStopCall

NextWidget ==
    \/ TimerRefresh
    \/ TimerLoadReturn
    \/ WidgetStart
    \/ \E desc \in Descriptions : TimerStartReturn(desc)
    \/ WidgetStop
    \/ \E r \in pending : TimerStopReturn(r)
    \/ Tick
    \/ \E h \in BOOLEAN : VisibilityChange(h)
    \/ Pass
    \/ \E o \in Owners, desc \in Descriptions : Start(o, desc)
    \/ \E o \in Owners, id \in Ids : Stop(o, id)

SpecWidget == InitWidget /\ [][NextWidget]_vars

\* ------------------------------------------------- getTimeStats (SpecStats)
\* The session's clock is local time: an instant is the milliseconds since noon
\* of the 16th of the current month, so that the month and the weeks it touches
\* fit the integers.  A Date is modelled by its day (0 is the 16th) and its
\* time of day in milliseconds; `calendar` tells what getDay and getDate answer.
\* No clock change (daylight saving) falls into the month.
MsPerDay == 86400000
HalfDay == MsPerDay \div 2
MidMonth == 16
StatsLimit == 100

\* new Date(ms) and Date.getTime (toISOString names the same instant)
DateOf(ms) ==
    [day |-> (ms + HalfDay) \div MsPerDay, tod |-> (ms + HalfDay) % MsPerDay]

getTime(d) == d.day * MsPerDay + d.tod - HalfDay

\* the day on which the month of d begins
FirstOfMonth(cal, d) ==
    IF d.day < 1 - MidMonth THEN 1 - MidMonth - cal.lenPrev
    ELSE IF d.day > cal.len - MidMonth THEN 1 - MidMonth + cal.len
    ELSE 1 - MidMonth

\* the days of the month of d (d in the current month or the one before)
DaysInMonth(cal, d) == IF d.day < 1 - MidMonth THEN cal.lenPrev ELSE cal.len

\* Date.getDate, Date.getDay, Date.setDate (a day outside the month rolls over
\* into the neighbouring month) and Date.setHours
getDate(cal, d) == d.day - FirstOfMonth(cal, d) + 1

getDay(cal, d) == (cal.weekday + d.day) % 7

setDate(cal, d, n) == [d EXCEPT !.day = FirstOfMonth(cal, d) + n - 1]

setHours(d, h, m, sec, ms) ==
    [d EXCEPT !.tod = ((h * 60 + m) * 60 + sec) * MsPerSecond + ms]

\* the adjustment that makes Monday the first day of the week
MondayOffsetSundayFirst(day) == 1

MondayOffset(day) == IF day = 0 THEN -6 ELSE 1

\* the start_date and end_date of the three queries of getTimeStats called at t
StatsWindows(cal, t) ==
    LET today == DateOf(t)
        todayStart == setHours(today, 0, 0, 0, 0)
        todayEnd == setHours(today, 23, 59, 59, 999)
        day == getDay(cal, today)
        diff == getDate(cal, today) - day + MondayOffset(day)
        weekStart == setHours(setDate(cal, today, diff), 0, 0, 0, 0)
        weekEnd == setHours(setDate(cal, weekStart,
                                    getDate(cal, weekStart) + 6),
                            23, 59, 59, 999)
        monthStart == [day |-> FirstOfMonth(cal, today), tod |-> 0]
        monthEnd == setHours([day |-> FirstOfMonth(cal, today)
                                        + DaysInMonth(cal, today) - 1,
                              tod |-> 0],
                             23, 59, 59, 999)
    IN  [today |-> <<getTime(todayStart), getTime(todayEnd)>>,
         week |-> <<getTime(weekStart), getTime(weekEnd)>>,
         month |-> <<getTime(monthStart), getTime(monthEnd)>>]

\* the filters of one query: start_date, end_date and limit, nothing else
StatsFilters(w) ==
    [start_date |-> w[1], end_date |-> w[2], is_running |-> "",
     page |-> Absent, limit |-> StatsLimit, sort_by |-> ""]

\* timeEntriesAPI.getTimeStats called and answered at t; failed tells which of
\* the three requests gets no response
getTimeStatsPropagates(tbl, caller, cal, t, failed) ==
    LET w == StatsWindows(cal, t)
        data == [k \in Windows |->
                   getTimeEntries(tbl, caller, StatsFilters(w[k]), t,
                                  failed[k])]
    IN  [thrown |-> \E k \in Windows : data[k].thrown,
         value |->
           [today |-> data["today"].body.total_duration,
            this_week |-> data["week"].body.total_duration,
            this_month |-> data["month"].body.total_duration,
            total_entries_today |-> Len(data["today"].body.entries),
            total_entries_week |-> Len(data["week"].body.entries),
            total_entries_month |-> Len(data["month"].body.entries)]]

\* what getTimeStats returns for the three results of its requests
getTimeStatsOf(data) ==
    IF \E k \in Windows : data[k].thrown
    THEN [thrown |-> FALSE, value |-> ZeroStats]
    ELSE [thrown |-> FALSE,
          value |->
            [today |-> data["today"].body.total_duration,
             this_week |-> data["week"].body.total_duration,
             this_month |-> data["month"].body.total_duration,
             total_entries_today |-> Len(data["today"].body.entries),
             total_entries_week |-> Len(data["week"].body.entries),
             total_entries_month |-> Len(data["month"].body.entries)]]

getTimeStats(tbl, caller, cal, t, failed) ==
    LET w == StatsWindows(cal, t)
        data == [k \in Windows |->
                   getTimeEntries(tbl, caller, StatsFilters(w[k]), t,
                                  failed[k])]
    IN  getTimeStatsOf(data)

\* what loadStats makes of the statistics when getTimeStats has settled: on an
\* error the statistics it has are kept
loadStats(st, res) ==
    IF res.thrown THEN [st EXCEPT !.loading = FALSE]
    ELSE [value |-> res.value, loading |-> FALSE]

\* One session of StatsOwner loads its statistics over a store that already
\* holds entries, on some day of some month.
StatsOwner == "A"

Calendars ==
    [weekday : 0..6, len : {28, 30, 31}, lenPrev : {28, 31}]

\* midnight at the start of day d
Midnight(d) == d * MsPerDay - HalfDay

\* the session's clock: the first, the third, the 16th and the last day of the
\* month, at midnight, at noon and in the last millisecond of the day
StatsClocks(cal) ==
    {Midnight(d) + tod :
       d \in {1 - MidMonth, 3 - MidMonth, 0, cal.len - MidMonth},
       tod \in {0, HalfDay, MsPerDay - 1}}

\* the Monday on or before day d, and the days the month begins and ends with
MondayOf(cal, d) == d - ((cal.weekday + d + 6) % 7)

\* the instants next to the edges of the day, the week and the month of day d
EdgeInstants(cal, d) ==
    {Midnight(e) - b :
       e \in {d, d + 1, MondayOf(cal, d), MondayOf(cal, d) + 7,
              1 - MidMonth, 1 - MidMonth + cal.len},
       b \in {0, 1}}

\* a store with one entry of StatsOwner that starts at s, running or lasting
\* two seconds, and an entry of the other owner at noon of the session's day;
\* a running entry has started by now and at most MaxRunningDays before, so
\* that its elapsed milliseconds fit the integers
MaxRunningDays == 20

StatsStores(cal, t) ==
    {<< Stored(NewRow(StatsOwner, "a", e[1],
                      IF e[2] THEN NULL ELSE e[1] + 2 * MsPerSecond, NULL)),
        Stored(NewRow("B", "a", Midnight(DateOf(t).day) + HalfDay,
                      Midnight(DateOf(t).day) + HalfDay + MsPerSecond,
                      NULL)) >> :
       e \in {x \in EdgeInstants(cal, DateOf(t).day) \X BOOLEAN :
                x[2] => /\ x[1] <= t
                        /\ DateOf(x[1]).day >= DateOf(t).day - MaxRunningDays}}

\* a store with n entries of StatsOwner that all start on the session's day
\* (one more than a list page holds is what InitStats takes)
BulkStore(t, n) ==
    [i \in 1..n |->
       Stored(NewRow(StatsOwner, "a", Midnight(DateOf(t).day) + i,
                     Midnight(DateOf(t).day) + i + MsPerSecond, NULL))]

InitStats ==
    /\ calendar \in Calendars
    /\ now \in StatsClocks(calendar)
    /\ \/ entries \in StatsStores(calendar, now)
       \/ /\ calendar = DefaultCalendar
          /\ now = 0
          /\ entries = BulkStore(now, StatsLimit + 1)
    /\ nextId = Len(entries) + 1
    /\ last = [op |-> "none", status |-> 0, id |-> NULL]
    /\ calls = [c \in Calls |-> IdleCall]
    /\ TimerUnmounted
    /\ ListIdle
    /\ stats = [value |-> ZeroStats, loading |-> TRUE]

\* loadStats up to its await (the effect on mount has run it once)
LoadStatsCall ==
    /\ ~stats.loading
    /\ stats' = [stats EXCEPT !.loading = TRUE]
    /\ UNCHANGED <<entries, nextId, now, last, calls, hookVars, list, filters,
                   listPending, calendar, statsPending>>

\* loadStats from its await on
LoadStatsReturn ==
    /\ stats.loading
    /\ \E failed \in [Windows -> BOOLEAN] :
         stats' = loadStats(stats, getTimeStats(entries, StatsOwner, calendar,
                                                now, failed))
    /\ UNCHANGED <<entries, nextId, now, last, calls, hookVars, list, filters,
                   listPending, calendar, statsPending>>

NextStats ==
    \/ LoadStatsCall
    \/ LoadStatsReturn

SpecStats == InitStats /\ [][NextStats]_vars

\* The statistics under writes (SpecStatsRace): the three requests of a
\* getTimeStats call are answered one by one, each from the store as it is
\* when the request is handled, while sessions of StatsOwner start, stop and
\* delete entries and time passes.  The day is the 16th, shortly after noon.
RaceStore ==
    << Stored(NewRow(StatsOwner, "a", 0, 250, NULL)),
       Stored(NewRow(StatsOwner, "a", 250, NULL, NULL)) >>

\* getTimeStats up to its await: the three requests, with the windows of t
getTimeStatsCall(cal, t) ==
    [k \in Windows |->
       [NoStatsRequest EXCEPT !.state = "flight",
                              !.f = StatsFilters(StatsWindows(cal, t)[k])]]

InitStatsRace ==
    /\ entries = RaceStore
    /\ nextId = Len(entries) + 1
    /\ now \in ClockSteps
    /\ last = [op |-> "none", status |-> 0, id |-> NULL]
    /\ calls = [c \in Calls |-> IdleCall]
    /\ TimerUnmounted
    /\ list = InitialList
    /\ filters = DEFAULT_FILTERS
    /\ listPending = {}
    /\ stats = [value |-> ZeroStats, loading |-> TRUE]
    /\ calendar = DefaultCalendar
    /\ statsPending = getTimeStatsCall(calendar, now)

\* loadStats up to the await of getTimeStats
StatsCall ==
    /\ ~stats.loading
    /\ stats' = [stats EXCEPT !.loading = TRUE]
    /\ statsPending' = getTimeStatsCall(calendar, now)
    /\ UNCHANGED <<entries, nextId, now, last, calls, hookVars, list, filters,
                   listPending, calendar>>

\* one of the three requests is answered: a failure rejects Promise.all at
\* once and the catch returns zeros (the other responses are dropped); the
\* last answer resolves it and loadStats stores the result
StatsQueryReturn(k) ==
    /\ statsPending[k].state = "flight"
    /\ \E failed \in BOOLEAN :
         LET res == getTimeEntries(entries, StatsOwner, statsPending[k].f,
                                   now, failed)
             answered == [statsPending EXCEPT ![k].state = "done",
                                              ![k].res = res]
             data == [j \in Windows |-> answered[j].res]
         IN  IF res.thrown \/ \A j \in Windows : answered[j].state = "done"
             THEN /\ stats' = loadStats(stats, getTimeStatsOf(data))
                  /\ statsPending' = NoStatsRequests
             ELSE /\ stats' = stats
                  /\ statsPending' = answered
    /\ UNCHANGED <<entries, nextId, now, last, calls, hookVars, list, filters,
                   listPending, calendar>>

NextStatsRace ==
    \/ StatsCall
    \/ \E k \in Windows : StatsQueryReturn(k)
    \/ \E desc \in Descriptions : Start(StatsOwner, desc)
    \/ \E id \in Ids : Stop(StatsOwner, id)
    \/ \E id \in Ids : Delete(StatsOwner, id)

SpecStatsRace == InitStatsRace /\ [][NextStatsRace]_vars

\* =================================================================== claims
Owned(tbl, o, id) == id \in DOMAIN tbl /\ tbl[id].user_id = o

\* d is ms taken in whole seconds: exact when ms is a whole number of seconds
WholeSeconds(d, ms) ==
    /\ d * MsPerSecond > ms - MsPerSecond
    /\ d * MsPerSecond < ms + MsPerSecond

\* get_running for owner o answers exactly r (an id, or NULL for none)
GetRunningIs(tbl, o, r) == RouteCurrent(o, tbl) = {Outcome(200, tbl, r)}

\* C1: in every reachable state each owner has at most one time entry whose
\* end_time is null.
C1_RunningUnique ==
    \A o \in Owners : Cardinality(Running(entries, o)) <= 1

C1_Witness ==
    /\ \A o \in Owners : Cardinality(Running(entries, o)) = 1
    /\ last.status = 409

\* C2: of the concurrent start calls of one owner without a running entry never
\* more than one succeeds; once all have settled exactly one has succeeded,
\* every other one got 409, and get_running answers the entry of the successful
\* call.
Succeeded == {c \in Calls : calls[c].pc = "done" /\ calls[c].status = 201}

Settled == \A c \in Calls : calls[c].pc = "done"

C2_ExactlyOneStart ==
    /\ Cardinality(Succeeded) <= 1
    /\ Settled =>
         /\ Cardinality(Succeeded) = 1
         /\ \A c \in Calls \ Succeeded : calls[c].status = 409
         /\ \A c \in Succeeded :
              /\ Owned(entries, RaceOwner, calls[c].id)
              /\ GetRunningIs(entries, RaceOwner, calls[c].id)

C2_Witness ==
    /\ Settled
    /\ Cardinality(Succeeded) = 1
    /\ Cardinality(Calls \ Succeeded) >= 2

\* A step of a writing action takes one of the outcomes its route has in the
\* state before the step, at one of the instants Soon(now); what holds of all
\* those outcomes in every reachable state holds of every step.
Soon(t) == {t + d : d \in ClockSteps}

\* C3: a start by an owner who has a running entry E1 is answered 409, creates
\* no entry and leaves the table as it was, and get_running still answers E1.
C3_StartConflict ==
    \A o \in Owners, desc \in Descriptions, t \in Soon(now) :
       Running(entries, o) # {} =>
          \A out \in RouteStart(o, entries, nextId, desc, t) :
             /\ out.status = 409
             /\ out.id = NULL
             /\ out.tbl = entries
             /\ \A e1 \in Running(entries, o) : GetRunningIs(out.tbl, o, e1)

C3_Witness ==
    /\ last.op = "start"
    /\ last.status = 409
    /\ \E o \in Owners : Running(entries, o) # {}

\* C4: a create whose end_time is not after its start_time, and an update that
\* would leave an entry with end_time not after start_time (equal included), is
\* answered 400 and stores nothing.
C4_RejectsEndNotAfterStart ==
    /\ \A o \in Owners, desc \in Descriptions, s \in InputTimes,
          e \in InputTimes, t \in Soon(now) :
          e <= s =>
             \A out \in RouteCreate(o, entries, nextId, desc, s, e, t) :
                out.status = 400 /\ out.tbl = entries
    /\ \A o \in Owners, id \in Ids, patch \in Patches :
          (/\ Owned(entries, o, id)
           /\ Merged(entries[id], patch).end_time # NULL
           /\ Merged(entries[id], patch).end_time
                 <= Merged(entries[id], patch).start_time) =>
             \A out \in RoutePatch(o, entries, id, patch) :
                out.status = 400 /\ out.tbl = entries

C4_Witness ==
    /\ last.op = "update"
    /\ last.status = 400
    /\ \E i \in DOMAIN entries : entries[i].end_time = 1000

\* C5: every stored entry has duration null exactly when end_time is null, and
\* otherwise its duration is end_time - start_time in whole seconds, whatever
\* duration the write supplied; 3661 s give exactly 3661.
C5_DurationDerived ==
    /\ \A i \in DOMAIN entries :
         /\ (entries[i].duration = NULL) <=> (entries[i].end_time = NULL)
         /\ entries[i].end_time # NULL =>
              /\ entries[i].duration >= 0
              /\ WholeSeconds(entries[i].duration,
                              entries[i].end_time - entries[i].start_time)
    /\ EpochToInteger(3661 * MsPerSecond) = {3661}

C5_Witness ==
    /\ last.op = "update"
    /\ last.status = 200
    /\ \E i \in DOMAIN entries :
         entries[i].end_time # NULL /\ entries[i].duration = 1
    /\ \E i \in DOMAIN entries : entries[i].end_time = NULL

\* what a stop of the running entry id of owner o at instant t must give
StopsAt(out, tbl, o, id, t) ==
    /\ out.status = 200
    /\ DOMAIN out.tbl = DOMAIN tbl
    /\ \A j \in DOMAIN tbl \ {id} : out.tbl[j] = tbl[j]
    /\ out.tbl[id].end_time = t
    /\ out.tbl[id].start_time = tbl[id].start_time
    /\ out.tbl[id].duration >= 0
    /\ WholeSeconds(out.tbl[id].duration, t - tbl[id].start_time)
    /\ GetRunningIs(out.tbl, o, NULL)

StopRefused ==
    \A o \in Owners, id \in Ids, t \in Soon(now) :
       \A out \in RouteStop(o, entries, id, t) :
          /\ (Owned(entries, o, id) /\ entries[id].end_time # NULL) =>
                out.status = 409 /\ out.tbl = entries
          /\ Running(entries, o) = {} =>
                out.status \in {403, 404, 409} /\ out.tbl = entries

C7_StopNotRunningFails ==
    /\ []StopRefused
    /\ [][(TimerStopCall /\ timer.currentEntry = NULL) =>
            /\ thrown'
            /\ UNCHANGED <<entries, nextId, now, last, timer, interval,
                           pending>>]_vars

C7_Witness ==
    /\ thrown
    /\ timer.currentEntry = NULL
    /\ ~timer.loading
    /\ last.op = "stop"
    /\ last.status = 409
    /\ \E i \in DOMAIN entries : entries[i].end_time # NULL

\* C8: a delete of a running entry is answered 204 and removes it; get_running
\* then answers none and a start by that owner succeeds at once.
C8_DeleteRunningFreesSlot ==
    \A o \in Owners, id \in Ids :
       (Owned(entries, o, id) /\ entries[id].end_time = NULL) =>
          \A out \in RouteDelete(o, entries, id) :
             /\ out.status = 204
             /\ id \notin DOMAIN out.tbl
             /\ GetRunningIs(out.tbl, o, NULL)
             /\ \A desc \in Descriptions, t \in Soon(now) :
                  \A again \in RouteStart(o, out.tbl, nextId, desc, t) :
                     /\ again.status = 201
                     /\ again.id = nextId
                     /\ GetRunningIs(again.tbl, o, nextId)

C8_Witness ==
    /\ last.op = "start"
    /\ last.status = 201
    /\ last.id = 2
    /\ DOMAIN entries = {2}
    /\ entries[2].end_time = NULL

\* C9: a delete removes exactly the entry with the given id and leaves every
\* other entry as it was; a delete of an id that does not exist, a second
\* delete of the same id included, is answered 404 and changes nothing.
C9_DeleteExactlyOne ==
    \A o \in Owners, id \in Ids :
       \A out \in RouteDelete(o, entries, id) :
          /\ Owned(entries, o, id) =>
               /\ out.status = 204
               /\ DOMAIN out.tbl = DOMAIN entries \ {id}
               /\ \A j \in DOMAIN out.tbl : out.tbl[j] = entries[j]
          /\ id \notin DOMAIN entries =>
               /\ out.status = 404
               /\ out.tbl = entries

C9_Witness ==
    /\ last.op = "delete"
    /\ last.status = 404
    /\ \E id \in Ids : id < nextId /\ id \notin DOMAIN entries
    /\ entries # << >>

\* the reads of owner a show nothing of another owner, and an id that does not
\* exist is answered 404
ReadsIsolated(a) ==
    /\ \A out \in RouteCurrent(a, entries) :
          out.id = NULL \/ Owned(entries, a, out.id)
    /\ \A i \in RouteList(a, entries).ids : Owned(entries, a, i)
    /\ \A id \in Ids \ DOMAIN entries :
          \A out \in RouteGet(a, entries, id) : out.status = 404

Refused(out, status) == out.status = status /\ out.tbl = entries /\ out.id = NULL

\* C10 as stated: every get, update, stop and delete by owner a on an entry of
\* another owner is answered 403 and changes nothing, and no read of a shows an
\* entry of another owner.
C10_CrossOwnerForbidden ==
    \A a \in Owners :
       /\ ReadsIsolated(a)
       /\ \A id \in DOMAIN entries :
            entries[id].user_id # a =>
               /\ \A out \in RouteGet(a, entries, id) : Refused(out, 403)
               /\ \A out \in RouteDelete(a, entries, id) : Refused(out, 403)
               /\ \A t \in Soon(now) :
                    \A out \in RouteStop(a, entries, id, t) : Refused(out, 403)
               /\ \A patch \in Patches :
                    \A out \in RoutePatch(a, entries, id, patch) :
                       Refused(out, 403)

\* C10 amended: as stated, except that an update whose patch carries both a
\* start_time and an end_time with end_time <= start_time is answered 400.
C10_CrossOwnerRefused ==
    \A a \in Owners :
       /\ ReadsIsolated(a)
       /\ \A id \in DOMAIN entries :
            entries[id].user_id # a =>
               /\ \A out \in RouteGet(a, entries, id) : Refused(out, 403)
               /\ \A out \in RouteDelete(a, entries, id) : Refused(out, 403)
               /\ \A t \in Soon(now) :
                    \A out \in RouteStop(a, entries, id, t) : Refused(out, 403)
               /\ \A patch \in Patches :
                    \A out \in RoutePatch(a, entries, id, patch) :
                       IF /\ patch.start_time # Absent
                          /\ patch.end_time # Absent
                          /\ patch.end_time <= patch.start_time
                       THEN Refused(out, 400)
                       ELSE Refused(out, 403)

C10_Witness ==
    /\ last.status = 403
    /\ last.op = "update"
    /\ \A o \in Owners : \E i \in DOMAIN entries : entries[i].user_id = o

\* a patch the PATCH route answers itself, before the request is forwarded
RefusedByRoute(patch) ==
    /\ patch.start_time # Absent
    /\ patch.end_time # Absent
    /\ patch.end_time <= patch.start_time

C12_CurrentTimerOrNull ==
    \A o \in Owners :
       \A res \in getCurrentTimer(entries, o, FALSE) :
          /\ ~res.thrown
          /\ IF Running(entries, o) = {} THEN res.entry = NULL
             ELSE /\ res.entry \in DOMAIN entries
                  /\ entries[res.entry].user_id = o
                  /\ entries[res.entry].end_time = NULL

C12_Witness ==
    /\ Running(entries, "A") # {}
    /\ Running(entries, "B") = {}
    /\ \E i \in DOMAIN entries :
         entries[i].user_id = "B" /\ entries[i].end_time # NULL

\* the list requests for the filters of the session, on each page
ListRequests == {[filters EXCEPT !.page = pg] : pg \in 1..4}

\* the entries of ListOwner a filter asks for
Filtered(f) ==
    {i \in DOMAIN entries :
       /\ entries[i].user_id = ListOwner
       /\ f.start_date # Absent => entries[i].start_time >= f.start_date
       /\ f.end_date # Absent => entries[i].start_time <= f.end_date
       /\ f.is_running = "true" => entries[i].end_time = NULL
       /\ f.is_running = "false" => entries[i].end_time # NULL}

\* the sum over the entries of S of what each adds at time t
RECURSIVE SumOf(_, _)
SumOf(S, t) ==
    IF S = {} THEN 0
    ELSE LET i == CHOOSE x \in S : TRUE
         IN  (IF entries[i].end_time = NULL
              THEN (t - entries[i].start_time) \div MsPerSecond
              ELSE entries[i].duration) + SumOf(S \ {i}, t)

\* the state of the hook after the list request f, answered now
LoadedNow(f) ==
    loadTimeEntries([list EXCEPT !.loading = TRUE, !.error = FALSE],
                    getTimeEntries(entries, ListOwner, f, now, FALSE))

\* C13: for every filter and page, the total_count and total_duration of the
\* list response, and so the totals the hook holds, are the number of entries
\* matching the filter and the sum of their durations, whatever the page.
C13_TotalsOfFilteredSet ==
    \A f \in ListRequests :
       LET st == LoadedNow(f)
           first == LoadedNow([f EXCEPT !.page = 1])
       IN  /\ ~st.error
           /\ st.totalCount = Cardinality(Filtered(f))
           /\ st.totalDuration = SumOf(Filtered(f), now)
           /\ st.totalCount = first.totalCount
           /\ st.totalDuration = first.totalDuration

C13_Witness ==
    /\ ~list.loading
    /\ ~list.error
    /\ list.page = 2
    /\ list.totalCount = 5
    /\ Len(list.entries) = 2
    /\ list.totalDuration > 0
    /\ filters.is_running = ""

\* C14: for every filter and sort, at one snapshot, pages 1..ceil(total_count /
\* page_size) hold only entries of the filtered set and each of them exactly
\* once, and hasNextPage is true on exactly the pages before the last one.
C14_PagesCoverFilteredSet ==
    \A f \in {filters} :
       LET first == LoadedNow([f EXCEPT !.page = 1])
           lastPage == (first.totalCount + first.perPage - 1)
                          \div first.perPage
           pages == [pg \in 1..lastPage |-> LoadedNow([f EXCEPT !.page = pg])]
           Places(i) ==
              UNION { {<<pg, k>> : k \in {x \in DOMAIN pages[pg].entries :
                                            pages[pg].entries[x] = i}} :
                      pg \in 1..lastPage }
       IN  /\ \A i \in Filtered(f) : Cardinality(Places(i)) = 1
           /\ \A pg \in 1..lastPage :
                /\ \A k \in DOMAIN pages[pg].entries :
                      pages[pg].entries[k] \in Filtered(f)
                /\ pages[pg].page = pg
                /\ hasNextPage(pages[pg]) <=> pg < lastPage

C14_Witness ==
    /\ ~list.loading
    /\ ~list.error
    /\ list.page = 3
    /\ list.perPage = 2
    /\ list.totalCount = 5
    /\ Len(list.entries) = 1
    /\ ~hasNextPage(list)
    /\ filters.sort_by = "duration"

\* C15: whenever one of the three window queries of getTimeStats fails (no
\* response, or a response that is not ok), getTimeStats returns today,
\* this_week, this_month and the three entry counts as zero and does not throw,
\* so that loadStats stores the zeros.
NoFailure == [k \in Windows |-> FALSE]

C15_StatsZeroOnFailure ==
    \A caller \in Callers, failed \in [Windows -> BOOLEAN] :
       (caller = NoAuth \/ \E k \in Windows : failed[k]) =>
          LET res == getTimeStats(entries, caller, calendar, now, failed)
          IN  /\ ~res.thrown
              /\ res.value = ZeroStats
              /\ loadStats(stats, res) = [value |-> ZeroStats,
                                          loading |-> FALSE]

C15_Witness ==
    /\ ~stats.loading
    /\ stats.value = ZeroStats
    /\ getTimeStats(entries, StatsOwner, calendar, now,
                    NoFailure).value.total_entries_today > 0

\* C16: for each window (today, this week, this month) the entry count that
\* getTimeStats reports equals the number of the owner's entries that
\* contribute to that window, for every size of that set, also above the
\* StatsLimit entries of one list page.
Contributing(tbl, o, cal, t, k) ==
    Matching(tbl, o, StatsFilters(StatsWindows(cal, t)[k]))

C16_CountsAreCardinalities ==
    LET v == getTimeStats(entries, StatsOwner, calendar, now, NoFailure).value
        n == [k \in Windows |->
                Cardinality(Contributing(entries, StatsOwner, calendar, now,
                                         k))]
    IN  /\ v.total_entries_today = n["today"]
        /\ v.total_entries_week = n["week"]
        /\ v.total_entries_month = n["month"]

\* C17: for every now, getTimeStats counts an entry in a window exactly when
\* its start_time lies in that window, never because it overlaps it, where the
\* day is [midnight, next midnight), the week [most recent Monday 00:00,
\* following Monday 00:00) and the month [1st 00:00, 1st of the next month
\* 00:00); on a Sunday the week is the one that began six days earlier.
WindowOf(cal, t, k) ==
    LET d == DateOf(t).day
    IN  IF k = "today" THEN <<Midnight(d), Midnight(d + 1)>>
        ELSE IF k = "week"
        THEN <<Midnight(MondayOf(cal, d)), Midnight(MondayOf(cal, d) + 7)>>
        ELSE <<Midnight(1 - MidMonth), Midnight(1 - MidMonth + cal.len)>>

StartsIn(k) ==
    {i \in DOMAIN entries :
       /\ entries[i].user_id = StatsOwner
       /\ entries[i].start_time >= WindowOf(calendar, now, k)[1]
       /\ entries[i].start_time < WindowOf(calendar, now, k)[2]}

LoadApplied ==
    /\ timer'.isRunning <=> reported' = "running"
    /\ reported' = "running" =>
          Running(entries, TimerOwner) = {timer'.currentEntry}
    /\ reported' = "idle" => Running(entries, TimerOwner) = {}

ElapsedSeconds(start, clock) ==
    IF clock <= start THEN 0
    ELSE CHOOSE n \in 0..(MaxNow \div MsPerSecond) :
            /\ n * MsPerSecond <= clock - start
            /\ clock - start < (n + 1) * MsPerSecond

C19_ElapsedDerived ==
    [][(timer.isRunning /\ (Tick \/ (hidden /\ ~hidden'))) =>
          timer'.elapsedTime = ElapsedSeconds(timer.startTime, now)]_vars

C19_Witness ==
    /\ timer.isRunning
    /\ reported = "idle"
    /\ ~hidden
    /\ interval = timer.startTime
    /\ timer.elapsedTime >= 2
    /\ timer.elapsedTime = ElapsedSeconds(timer.startTime, now)

\* C20: while the page is hidden no tick interval is active, in every order of
\* load, start, stop and visibility changes, also for a timer that is loaded
\* or started while the page is already hidden; and when the page becomes
\* visible with a running timer the tick is active again.
C20_NoTickWhileHidden ==
    /\ [](hidden => interval = NULL)
    /\ [][(timer.isRunning /\ hidden /\ ~hidden') => interval' # NULL]_vars

\* C21: when a start of the client fails with a conflict (409), the failure is
\* surfaced to the caller (useTimer sets the error and throws it on, the
\* Dashboard shows an error toast), the client issues no stop, delete or second
\* start on its own, and its isRunning and currentEntry are what they were
\* before the response.
StartConflict ==
    /\ \E desc \in Descriptions : TimerStartReturn(desc)
    /\ now' # now
    /\ last'.op = "start"
    /\ last'.status = 409

DashboardConflict ==
    \A desc \in Descriptions, t \in Soon(now) :
       \A out \in RouteStart(TimerOwner, entries, nextId, desc, t) :
          out.status = 409 =>
             LET r == handleStart(timer, interval, out)
             IN  /\ r.toast = "Failed to start timer"
                 /\ r.requests = {}
                 /\ r.timer.isRunning = timer.isRunning
                 /\ r.timer.currentEntry = timer.currentEntry
                 /\ out.tbl = entries

C21_ConflictSurfaced ==
    /\ [][StartConflict =>
             /\ thrown'
             /\ timer'.error
             /\ timer'.isRunning = timer.isRunning
             /\ timer'.currentEntry = timer.currentEntry
             /\ pending' = pending \ {Request("start", NULL)}
             /\ entries' = entries
             /\ interval' = interval]_vars
    /\ []DashboardConflict

C21_Witness ==
    /\ thrown
    /\ timer.error
    /\ last.op = "start"
    /\ last.status = 409
    /\ timer.isRunning
    /\ reported = "running"
    /\ timer.currentEntry \in Running(entries, TimerOwner)
    /\ pending = {}

\* C23: when a stop issued by the client fails, for instance because another
\* session has already stopped the entry, the client fetches the timer state
\* anew (a get_running request is in flight after the failure), so that it
\* comes to show idle when the server has no running entry.
StopFailed ==
    /\ \E r \in pending : TimerStopReturn(r)
    /\ thrown'

C23_StopFailureRefetches ==
    [][StopFailed => Request("load", NULL) \in pending']_vars

\* C24: after a tab refocus (as after an explicit refresh and after every
\* mutating command) the client issues a refetch of the server state the event
\* could have changed, so that what it shows comes to equal the server's: when
\* the page becomes visible, a get_running request is in flight.
Refocus == hidden /\ ~hidden'

C24_RefetchOnRefocus ==
    [][Refocus => Request("load", NULL) \in pending']_vars

\* C27: in every reachable state of useTimer in which isRunning is false, no
\* tick interval is active and elapsedTime is 0; in particular after a refresh
\* that finds no running entry while the tick of an earlier timer was active.
C27_IdleHasNoTick ==
    ~timer.isRunning => (interval = NULL /\ timer.elapsedTime = 0)

\* Dashboard.updateDescription and updateEntryDetails: the patch each sends for
\* the running entry.  A blank description is sent as undefined; project_id
\* and task_id are fields the table of the model does not carry.
updateDescriptionWithEnd(newDescription) ==
    [description |-> newDescription, start_time |-> Absent,
     end_time |-> CHOOSE e \in PatchEnds : \A x \in PatchEnds : x <= e]

updateDescription(newDescription) ==
    [description |-> newDescription, start_time |-> Absent,
     end_time |-> Absent]

updateEntryDetails ==
    [description |-> "", start_time |-> Absent, end_time |-> Absent]

\* calculateDuration of lib/time-utils: Math.floor of the milliseconds / 1000
calculateDuration(startTime, endTime) ==
    (endTime - startTime) \div MsPerSecond

\* patches that supply exactly one of start_time and end_time
OneBoundPatches ==
    {patch \in Patches :
        (patch.start_time = Absent) # (patch.end_time = Absent)}

DurationOfBounds(row) ==
    IF row.end_time = NULL THEN row.duration = NULL
    ELSE row.duration \in EpochToInteger(row.end_time - row.start_time)

\* C25: an update whose patch supplies only one of start_time and end_time is
\* validated against the merged entry: when the supplied bound and the stored
\* other bound give end_time <= start_time the update is rejected and the
\* stored entry is unchanged; when it is accepted the stored bounds are the
\* merged ones and the duration is recomputed from them.
C25_MergedRevalidated ==
    \A id \in DOMAIN entries : \A patch \in OneBoundPatches :
        \A out \in RoutePatch(entries[id].user_id, entries, id, patch) :
            LET m == Merged(entries[id], patch)
            IN  /\ (m.end_time # NULL /\ m.end_time <= m.start_time)
                      => (out.status = 400 /\ out.tbl = entries)
                /\ ResponseOk(out.status)
                      => /\ out.tbl[id].start_time = m.start_time
                         /\ out.tbl[id].end_time = m.end_time
                         /\ DurationOfBounds(out.tbl[id])
                         /\ \A j \in DOMAIN entries \ {id} :
                               out.tbl[j] = entries[j]

\* an accepted update of the start alone has moved a running entry's start
\* past every time a create or a start can give it; a patch of its end alone
\* is then refused, and a patch of one bound of a completed entry is accepted
\* with another duration
C25_Witness ==
    /\ last.op = "update" /\ last.status = 200
    /\ last.id \in DOMAIN entries
    /\ entries[last.id].start_time \in PatchStarts \ InputTimes
    /\ \E patch \in OneBoundPatches :
          /\ patch.end_time # Absent
          /\ \A out \in RoutePatch(entries[last.id].user_id, entries,
                                   last.id, patch) : out.status = 400
    /\ \E id \in DOMAIN entries : \E patch \in OneBoundPatches :
          \E out \in RoutePatch(entries[id].user_id, entries, id, patch) :
             /\ ResponseOk(out.status)
             /\ entries[id].duration # NULL
             /\ out.tbl[id].duration # entries[id].duration

FieldPatches ==
    {updateDescription(d) : d \in {"", "b"}} \cup {updateEntryDetails}

StillRunning(id) ==
    /\ id \in DOMAIN entries'
    /\ entries'[id].end_time = NULL
    /\ entries'[id].start_time = entries[id].start_time

\* the step is an accepted stop, delete or update of the entry
Ended(id) ==
    last'.op \in {"stop", "delete", "update"} /\ last'.id = id

FieldUpdateKeepsRunning ==
    \A id \in DOMAIN entries : \A o \in Callers, patch \in FieldPatches :
        \A out \in RoutePatch(o, entries, id, patch) :
            entries[id].end_time = NULL
               => /\ id \in DOMAIN out.tbl
                  /\ out.tbl[id].end_time = NULL
                  /\ out.tbl[id].start_time = entries[id].start_time

\* C26: a running entry stays running until it is explicitly stopped or
\* deleted: no update of its description, project or task changes its
\* end_time from null or changes its start_time, and neither does any step in
\* which time passes other than an accepted stop, delete or update of that
\* entry (a refused request and a request for another entry included).
C26_RunningPersists ==
    /\ []FieldUpdateKeepsRunning
    /\ [][\A id \in DOMAIN entries :
             (entries[id].end_time = NULL /\ ~Ended(id)) => StillRunning(id)]_vars

\* a running entry whose description an update has changed, two clock steps
\* after its start, while the other user has started a timer as well
C26_Witness ==
    /\ last.op = "update" /\ last.status = 200
    /\ last.id \in DOMAIN entries
    /\ entries[last.id].end_time = NULL
    /\ entries[last.id].description = "b"
    /\ entries[last.id].start_time \notin PatchStarts
    /\ now > entries[last.id].start_time + MsPerSecond
    /\ \E j \in DOMAIN entries :
          entries[j].user_id # entries[last.id].user_id

\* C30: for every pair of timestamps with sub-second precision and
\* end_time > start_time, the duration the calculate_duration trigger stores
\* equals the client's calculateDuration of the same pair, the number of whole
\* elapsed seconds rounded down.
C30_TriggerFloors ==
    \A id \in DOMAIN entries :
        (entries[id].end_time # NULL
         /\ entries[id].end_time > entries[id].start_time)
           => entries[id].duration
                 = calculateDuration(entries[id].start_time,
                                     entries[id].end_time)

\* a delete or an update of the session has come back failed
MutationFailure ==
    /\ \E r \in pending : DeleteEntryReturn(r) \/ UpdateEntryReturn(r)
    /\ ~ResponseOk(last'.status)

\* the list request of a catch has been answered with a list
RevertCompleted ==
    /\ \E r \in pending : r.kind = "revert" /\ RefetchReturn(r)
    /\ ~list'.error

ShowsServerList(st, f) ==
    LET body == RouteListPage(ListOwner, entries, f, now)
    IN  /\ st.entries = body.entries
        /\ st.totalCount = body.total_count

\* C22: a failed update or delete in useTimeEntries always triggers a full
\* refetch of the list, and once that refetch has completed the displayed
\* entries and total count equal the server's list for the current filters,
\* with no trace of the optimistic change.
C22_FailureRefetchesCurrent ==
    [][/\ MutationFailure => \E r \in pending' : r.kind = "revert"
       /\ RevertCompleted => ShowsServerList(list', filters)]_vars

\* what the code does give: the refetch is always made, and when it has
\* completed the state shows the server's list for the filters the failed
\* call was made with
RevertShowsCallTimeList ==
    [][/\ MutationFailure => \E r \in pending' : r.kind = "revert"
       /\ RevertCompleted =>
            \E r \in pending : ShowsServerList(list', r.f)]_vars

\* every list request has been answered, the last of them with a list
ListSettled ==
    listPending = {} /\ pending = {} /\ ~list.loading /\ ~list.error

\* C28: when several list requests of useTimeEntries are in flight at once,
\* then for every order in which their responses arrive, once all have
\* completed the displayed entries, page and totals are those of the response
\* to the most recently set filters: the page and page size shown are the
\* ones those filters ask for.
C28_LatestFiltersWin ==
    ListSettled => (list.page = ClampPage(filters.page)
                    /\ list.perPage = ClampLimit(filters.limit))

\* C29: every stats result that getTimeStats returns satisfies
\* today <= this_week and today <= this_month, and total_entries_today <=
\* total_entries_week and total_entries_today <= total_entries_month, also when
\* entries are created, stopped or deleted while its three window queries are
\* in flight.
C29_StatsMonotone ==
    /\ stats.value.today <= stats.value.this_week
    /\ stats.value.today <= stats.value.this_month
    /\ stats.value.total_entries_today <= stats.value.total_entries_week
    /\ stats.value.total_entries_today <= stats.value.total_entries_month

\* what the code does give: a result whose three queries were answered from
\* one state of the store at one instant is monotone
StatsMonotoneAtOnce ==
    \A failed \in [Windows -> BOOLEAN] :
        LET v == getTimeStats(entries, StatsOwner, calendar, now, failed).value
        IN  /\ v.today <= v.this_week
            /\ v.today <= v.this_month
            /\ v.total_entries_today <= v.total_entries_week
            /\ v.total_entries_today <= v.total_entries_month

============================================================================
